---- MODULE Spec2Model ----
(***************************************************************************)
(* The tender lifecycle of tenderbridge: the status state machine          *)
(* (app/utils/tender_state.py), the request handlers that write            *)
(* tender.status and bid.status (app/api/tender.py, app/api/bids.py), the  *)
(* scheduler's automatic transitions (app/services/scheduler_service.py)   *)
(* and the ledger-commit job (app/services/chain_worker.py).               *)
(*                                                                         *)
(* A nullable column holds None (the empty tuple) or Some(x) (a 1-tuple).  *)
(* Rows are records; the tenders and bids tables are sequences, a row's    *)
(* primary key being its index.  Time is the integer clock `now`.          *)
(***************************************************************************)
EXTENDS Integers, Sequences, FiniteSets, TLC

VARIABLES
    now,        \* datetime.utcnow()
    tenders,    \* table tenders
    bids,       \* table bids
    queue,      \* jobs held by chain_queue (delivered at least once)
    ledger,     \* recordAward transactions the registry has taken
    inflight,   \* requests that have read the database and not yet committed
    sm,         \* a call of the state machine's validate_transition
    cache       \* the keys redis_client holds, each with its value

vars == <<now, tenders, bids, queue, ledger, inflight, sm, cache>>

---------------------------------------------------------------------------
(* Bounds of the model *)

\* bids created under Spec
MaxBids == 2
\* bids created under SpecBids
MaxBidsB == 3
\* bids created under SpecConc
MaxBidsC == 2
\* requests in flight at once under SpecConc
MaxInflight == 2
\* award jobs enqueued under SpecConc
MaxJobsC == 2
\* the clock runs from 0 to MaxNow
MaxNow == 1
\* award records the ledger takes
MaxLedger == 2

---------------------------------------------------------------------------
(* Nullable columns and optional request fields *)

None == <<>>
Some(x) == <<x>>
Range(s) == {s[i] : i \in DOMAIN s}

---------------------------------------------------------------------------
(* app/utils/tender_state.py *)

DRAFT == "draft"
PUBLISHED == "published"
OPEN == "open"
EVALUATION == "evaluation"
AWARDED == "awarded"
CANCELLED == "cancelled"
CLOSED == "closed"

TenderStatus == {DRAFT, PUBLISHED, OPEN, EVALUATION, AWARDED, CANCELLED, CLOSED}

TRANSITIONS_bad ==
    [s \in TenderStatus |->
        CASE s = DRAFT      -> <<PUBLISHED, CANCELLED>>
          [] s = PUBLISHED  -> <<OPEN, CLOSED, CANCELLED>>
          [] s = OPEN       -> <<EVALUATION, CLOSED, CANCELLED>>
          [] s = EVALUATION -> <<AWARDED, OPEN, CANCELLED>>
          [] s = CLOSED     -> <<EVALUATION, CANCELLED>>
          [] s = AWARDED    -> <<>>
          [] s = CANCELLED  -> <<>>]

TRANSITIONS_reopen ==
    [s \in TenderStatus |->
        CASE s = DRAFT      -> <<PUBLISHED, CANCELLED>>
          [] s = PUBLISHED  -> <<OPEN, CANCELLED>>
          [] s = OPEN       -> <<EVALUATION, CLOSED, CANCELLED>>
          [] s = EVALUATION -> <<AWARDED, OPEN, CANCELLED>>
          [] s = CLOSED     -> <<EVALUATION, CANCELLED>>
          [] s = AWARDED    -> <<EVALUATION>>
          [] s = CANCELLED  -> <<DRAFT>>]

TRANSITIONS ==
    [s \in TenderStatus |->
        CASE s = DRAFT      -> <<PUBLISHED, CANCELLED>>
          [] s = PUBLISHED  -> <<OPEN, CANCELLED>>
          [] s = OPEN       -> <<EVALUATION, CLOSED, CANCELLED>>
          [] s = EVALUATION -> <<AWARDED, OPEN, CANCELLED>>
          [] s = CLOSED     -> <<EVALUATION, CANCELLED>>
          [] s = AWARDED    -> <<>>
          [] s = CANCELLED  -> <<>>]

can_transition(from_status, to_status) ==
    IF from_status \notin DOMAIN TRANSITIONS
    THEN FALSE
    ELSE to_status \in Range(TRANSITIONS[from_status])

get_allowed_transitions(current_status) ==
    IF current_status \in DOMAIN TRANSITIONS
    THEN TRANSITIONS[current_status]
    ELSE <<>>

\* Python's `not reason` for an Optional[str]
Falsy(reason) == reason = None \/ reason = Some("")

\* The returned pair (is_valid, error_message); the message is kept as its
\* fixed text and the list it interpolates.
Msg(ok, text, allowed) == [ok |-> ok, text |-> text, allowed |-> allowed]

validate_transition_noreason(from_status, to_status, reason) ==
    IF from_status = to_status
    THEN Msg(TRUE, "Status unchanged", <<>>)
    ELSE IF ~can_transition(from_status, to_status)
    THEN Msg(FALSE, "Cannot transition", get_allowed_transitions(from_status))
    ELSE Msg(TRUE, "Valid transition", <<>>)

validate_transition(from_status, to_status, reason) ==
    IF from_status = to_status
    THEN Msg(TRUE, "Status unchanged", <<>>)
    ELSE IF ~can_transition(from_status, to_status)
    THEN Msg(FALSE, "Cannot transition", get_allowed_transitions(from_status))
    ELSE IF to_status = CANCELLED /\ Falsy(reason)
    THEN Msg(FALSE, "Cancellation requires a reason", <<>>)
    ELSE Msg(TRUE, "Valid transition", <<>>)

can_award_open(status) == status \in {EVALUATION, OPEN}

is_terminal_status(status) == status \in {AWARDED, CANCELLED}
can_receive_bids(status) == status = OPEN
can_edit_tender(status) == status \in {DRAFT, PUBLISHED}
can_award(status) == status = EVALUATION
should_auto_close(status, closing_date) ==
    IF status # OPEN THEN FALSE ELSE now >= closing_date

---------------------------------------------------------------------------
(* Actors (rows of table users) and app/utils/permissions.py *)

Users == {"alice", "bob", "eve"}

\* User.company_id: alice manages tenders for company A, bob bids for
\* company B, eve has no company.
company_id(u) ==
    CASE u = "alice" -> Some("A")
      [] u = "bob"   -> Some("B")
      [] OTHER       -> None

\* User.role
role(u) == IF u = "alice" THEN "tender_manager" ELSE "user"

is_admin(u) == role(u) = "admin"
is_tender_manager(u) == role(u) \in {"admin", "company_admin", "tender_manager"}
can_create_tender(u) == is_tender_manager(u) /\ company_id(u) # None
can_award_tender(u, tender_posted_by_id) ==
    \/ is_admin(u)
    \/ is_tender_manager(u) /\ company_id(u) = Some(tender_posted_by_id)
can_submit_bid(u) == company_id(u) # None

---------------------------------------------------------------------------
(* Request inputs *)

\* The tender ids requests name; one tender is created.
TenderIds == {1}
ClosingDates == 1..MaxNow
RequestedStatus == TenderStatus \cup {"archived"}
Reasons == {None, Some(""), Some("budget withdrawn")}
Justifications == {"", "best value"}
Amounts == {100, 150}
BidStatusValues == {"pending", "shortlisted", "accepted", "rejected", "withdrawn"}

---------------------------------------------------------------------------
(* app/db/models.py *)

\* The row create_tender adds to table tenders: the columns it sets and the
\* defaults of the others (publish_date is left NULL).
Tender(closing_date, posted_by_id) ==
    [status              |-> DRAFT,
     closing_date        |-> closing_date,
     publish_date        |-> None,
     posted_by_id        |-> posted_by_id,
     status_updated_at   |-> now,
     cancelled_at        |-> None,
     cancellation_reason |-> None,
     cancelled_by_id     |-> None,
     awarded_at          |-> None,
     winning_bid_id      |-> None,
     award_chain_tx      |-> None,
     award_hash_on_chain |-> None,
     award_justification |-> None]

\* A new row of table bids with the column defaults.
Bid(tender_id, bidder, amount, status, revision_number, parent_bid_id) ==
    [tender_id         |-> tender_id,
     company_id        |-> bidder,
     amount            |-> amount,
     status            |-> status,
     revision_number   |-> revision_number,
     parent_bid_id     |-> parent_bid_id,
     withdrawn_at      |-> None,
     withdrawal_reason |-> None]

\* The unit of work's UPDATE: the columns whose value the handler changed
\* from the value it loaded (snap) are written over the stored row (cur).
Flush(cur, snap, new) ==
    [c \in DOMAIN cur |-> IF new[c] # snap[c] THEN new[c] ELSE cur[c]]

---------------------------------------------------------------------------
(* Responses.  code is the HTTP status; detail names the HTTPException's   *)
(* detail text by the error it stands for.                                 *)

Resp(op, code, detail, t, b) ==
    [op |-> op, code |-> code, detail |-> detail, tender |-> t, bid |-> b]

Ok(r) == r.code = 200

---------------------------------------------------------------------------
(* app/utils/cache.py.  The cache is a set of entries [key, value]; a key  *)
(* is held at most once.  A Redis error is caught by get_cached,           *)
(* set_cached and invalidate_cache and leaves the cache as it is.          *)

\* The sessions get_tender can be handed as its db argument, each with the
\* length of its str(): the first is short enough for a detail key to stay
\* in clear, the second has the length of Python's default text of an
\* object, "<sqlalchemy.orm.session.Session object at 0x............>".
Sessions == {[at |-> 1, len |-> 40], [at |-> 2, len |-> 57]}

\* len(str(tender_id)) of a UUID.
UuidLen == 36

\* The keyword arguments in the order of their names, each as "name=value".
key_parts(kwargs) == <<[name |-> "db", value |-> kwargs.db.at],
                       [name |-> "tender_id", value |-> kwargs.tender_id]>>

\* len(":".join(key_parts)): "db=" + str(db) + ":" + "tender_id=" + str(id).
key_string_len(kwargs) == (3 + kwargs.db.len) + 1 + (10 + UuidLen)

\* generate_cache_key for a call with keyword arguments only, as the router
\* makes it: a key string over 100 characters is replaced by its MD5 digest.
generate_cache_key(prefix, kwargs) ==
    IF key_string_len(kwargs) > 100
    THEN [prefix |-> prefix, md5 |-> Some(key_parts(kwargs)), key_string |-> None]
    ELSE [prefix |-> prefix, md5 |-> None, key_string |-> Some(key_parts(kwargs))]

\* json.dumps(value, default=str) of a mapped object: str() of the object,
\* which names its class and its address and none of its columns.
dumps(value) == "<app.db.models.Tender object>"

get_cached(key) ==
    IF \E e \in cache : e.key = key
    THEN Some((CHOOSE e \in cache : e.key = key).value)
    ELSE None

set_cached(key, value) ==
    {e \in cache : e.key # key} \cup {[key |-> key, value |-> dumps(value)]}

\* redis_client.keys(pattern) for the patterns "tenders:*" (id = None) and
\* "tenders:*<id>*": the 32 characters of a digest never hold the 36 of an
\* id, so a digested key matches only the first.
keys(pattern_id) ==
    {e.key : e \in {x \in cache :
        /\ x.key.prefix \in {"tenders:detail", "tenders:list"}
        /\ \/ pattern_id = None
           \/ /\ x.key.key_string # None
              /\ \E i \in DOMAIN x.key.key_string[1] :
                     /\ x.key.key_string[1][i].name = "tender_id"
                     /\ x.key.key_string[1][i].value = pattern_id[1]}}

invalidate_cache(pattern_id) == {e \in cache : e.key \notin keys(pattern_id)}

\* invalidate_tender_cache: the documents: and qa: patterns match no
\* tenders: key.
invalidate_tender_cache(tender_id) == invalidate_cache(tender_id)

---------------------------------------------------------------------------
(* Initial state: empty tables, empty queue, empty ledger, empty cache *)

Init ==
    /\ now = 0
    /\ tenders = <<>>
    /\ bids = <<>>
    /\ queue = <<>>
    /\ ledger = <<>>
    /\ inflight = <<>>
    /\ sm = None
    /\ cache = {}

\* The clock advances.
Tick ==
    /\ now < MaxNow
    /\ now' = now + 1
    /\ UNCHANGED <<tenders, bids, queue, ledger, inflight, sm, cache>>

---------------------------------------------------------------------------
(* app/api/tender.py *)

create_tender_resp(u) ==
    IF company_id(u) = None THEN Resp("create_tender", 400, "Unassigned", 0, 0)
    ELSE IF ~can_create_tender(u) THEN Resp("create_tender", 403, "Forbidden", 0, 0)
    ELSE Resp("create_tender", 200, "ok", Len(tenders) + 1, 0)

create_tender(u, closing_date) ==
    /\ IF Ok(create_tender_resp(u))
       THEN /\ tenders' = Append(tenders, Tender(closing_date, company_id(u)[1]))
            /\ cache' = invalidate_tender_cache(None)
       ELSE UNCHANGED <<tenders, cache>>
    /\ UNCHANGED <<now, bids, queue, ledger, inflight, sm>>

\* update_tender_status up to its validation, on the row it loaded.
update_tender_status_resp(u, t, status, reason) ==
    IF t \notin DOMAIN tenders
    THEN Resp("update_tender_status", 404, "NotFound", t, 0)
    ELSE IF ~can_award_tender(u, tenders[t].posted_by_id)
    THEN Resp("update_tender_status", 403, "Forbidden", t, 0)
    ELSE LET v == validate_transition(tenders[t].status, status, reason)
         IN  IF ~v.ok
             THEN Resp("update_tender_status", 400, v.text, t, 0)
             ELSE Resp("update_tender_status", 200, v.text, t, 0)

\* The assignments of update_tender_status to the loaded row.
update_tender_status_row(row, u, status, reason) ==
    LET c == IF status = CANCELLED
             THEN [row EXCEPT !.cancelled_at = Some(now),
                              !.cancellation_reason = reason,
                              !.cancelled_by_id = Some(u)]
             ELSE row
    IN  [c EXCEPT !.status = status, !.status_updated_at = now]

update_tender_status(u, t, status, reason) ==
    /\ IF Ok(update_tender_status_resp(u, t, status, reason))
       THEN /\ tenders' = [tenders EXCEPT ![t] =
                           update_tender_status_row(tenders[t], u, status, reason)]
            /\ cache' = invalidate_tender_cache(Some(t))
       ELSE UNCHANGED <<tenders, cache>>
    /\ UNCHANGED <<now, bids, queue, ledger, inflight, sm>>

close_tender_resp(u, t) ==
    IF t \notin DOMAIN tenders
    THEN Resp("close_tender", 404, "NotFound", t, 0)
    ELSE IF Some(tenders[t].posted_by_id) # company_id(u)
    THEN Resp("close_tender", 403, "Forbidden", t, 0)
    ELSE IF tenders[t].status # OPEN
    THEN Resp("close_tender", 400, "InvalidState", t, 0)
    ELSE Resp("close_tender", 200, "ok", t, 0)

close_tender(u, t) ==
    /\ IF Ok(close_tender_resp(u, t))
       THEN tenders' = [tenders EXCEPT ![t].status = CLOSED,
                                       ![t].status_updated_at = now]
       ELSE UNCHANGED tenders
    /\ UNCHANGED <<now, bids, queue, ledger, inflight, sm, cache>>

other_bids_all(t, b) ==
    {i \in DOMAIN bids : bids[i].tender_id = t /\ i # b}

\* The bids of tender t that award_tender's second query returns: every bid
\* of the tender but the winner whose status is not withdrawn.
other_bids(t, b) ==
    {i \in DOMAIN bids : /\ bids[i].tender_id = t
                         /\ i # b
                         /\ bids[i].status # "withdrawn"}

award_tender_resp_anybid(u, t, b, justification) ==
    IF t \notin DOMAIN tenders
    THEN Resp("award_tender", 404, "NotFound", t, b)
    ELSE IF ~can_award_tender(u, tenders[t].posted_by_id)
    THEN Resp("award_tender", 403, "Forbidden", t, b)
    ELSE IF ~can_award(tenders[t].status)
    THEN Resp("award_tender", 400, "InvalidState", t, b)
    ELSE IF ~(b \in DOMAIN bids /\ bids[b].tender_id = t)
    THEN Resp("award_tender", 404, "NotFound", t, b)
    ELSE Resp("award_tender", 200, "ok", t, b)

award_tender_resp(u, t, b, justification) ==
    IF t \notin DOMAIN tenders
    THEN Resp("award_tender", 404, "NotFound", t, b)
    ELSE IF ~can_award_tender(u, tenders[t].posted_by_id)
    THEN Resp("award_tender", 403, "Forbidden", t, b)
    ELSE IF ~can_award(tenders[t].status)
    THEN Resp("award_tender", 400, "InvalidState", t, b)
    ELSE IF tenders[t].status = AWARDED
    THEN Resp("award_tender", 400, "AlreadyAwarded", t, b)
    ELSE IF ~(b \in DOMAIN bids /\ bids[b].tender_id = t)
    THEN Resp("award_tender", 404, "NotFound", t, b)
    ELSE IF bids[b].status = "withdrawn"
    THEN Resp("award_tender", 400, "InvalidBid", t, b)
    ELSE Resp("award_tender", 200, "ok", t, b)

\* The assignments of award_tender to the tender row it loaded.
award_tender_row(row, b, justification) ==
    [row EXCEPT !.status = AWARDED,
                !.winning_bid_id = Some(b),
                !.awarded_at = Some(now),
                !.status_updated_at = now,
                !.award_justification = Some(justification)]

\* The bid rows after award_tender's writes: the winner accepted, the other
\* non-withdrawn bids of the tender rejected.
award_tender_bids(t, b) ==
    [i \in DOMAIN bids |->
        IF i = b THEN [bids[i] EXCEPT !.status = "accepted"]
        ELSE IF i \in other_bids(t, b) THEN [bids[i] EXCEPT !.status = "rejected"]
        ELSE bids[i]]

\* A job of chain_queue: the payload award_tender enqueues, and the state
\* of its delivery.
Job(t, b, amount) ==
    [tender_id |-> t, winning_bid_id |-> b, award_amount |-> amount,
     state |-> "enqueued", data_hash |-> None, tx_hash |-> None,
     seen_hash |-> None, seen_status |-> None]

enqueue_always(job, raised) == Append(queue, job)

\* chain_queue.enqueue: it may raise, which award_tender logs and swallows.
enqueue(job, raised) == IF raised THEN queue ELSE Append(queue, job)

award_tender(u, t, b, justification, raised) ==
    /\ IF Ok(award_tender_resp(u, t, b, justification))
       THEN /\ tenders' = [tenders EXCEPT ![t] =
                              award_tender_row(tenders[t], b, justification)]
            /\ bids' = award_tender_bids(t, b)
            /\ cache' = invalidate_tender_cache(Some(t))
            /\ queue' = enqueue(Job(t, b, bids[b].amount), raised)
       ELSE UNCHANGED <<tenders, bids, queue, cache>>
    /\ UNCHANGED <<now, ledger, inflight, sm>>

---------------------------------------------------------------------------
(* app/api/bids.py *)

AllowedExt == {"pdf", "docx", "zip"}
FileExts == {"pdf", "exe"}

submit_bid_with_file_resp_nodate(u, t, amount, ext) ==
    IF company_id(u) = None
    THEN Resp("submit_bid", 400, "Unassigned", t, 0)
    ELSE IF t \notin DOMAIN tenders
    THEN Resp("submit_bid", 404, "NotFound", t, 0)
    ELSE IF ~can_receive_bids(tenders[t].status)
    THEN Resp("submit_bid", 400, "InvalidState", t, 0)
    ELSE IF Some(tenders[t].posted_by_id) = company_id(u)
    THEN Resp("submit_bid", 400, "SelfBidding", t, 0)
    ELSE IF ext \notin AllowedExt
    THEN Resp("submit_bid", 400, "InvalidFile", t, 0)
    ELSE IF amount = None
    THEN Resp("submit_bid", 400, "InvalidAmount", t, 0)
    ELSE Resp("submit_bid", 200, "ok", t, Len(bids) + 1)

submit_bid_with_file_resp_ownbid(u, t, amount, ext) ==
    IF company_id(u) = None
    THEN Resp("submit_bid", 400, "Unassigned", t, 0)
    ELSE IF t \notin DOMAIN tenders
    THEN Resp("submit_bid", 404, "NotFound", t, 0)
    ELSE IF ~can_receive_bids(tenders[t].status)
    THEN Resp("submit_bid", 400, "InvalidState", t, 0)
    ELSE IF now >= tenders[t].closing_date
    THEN Resp("submit_bid", 400, "InvalidState", t, 0)
    ELSE IF ext \notin AllowedExt
    THEN Resp("submit_bid", 400, "InvalidFile", t, 0)
    ELSE IF amount = None
    THEN Resp("submit_bid", 400, "InvalidAmount", t, 0)
    ELSE Resp("submit_bid", 200, "ok", t, Len(bids) + 1)

\* The checks of submit_bid_with_file; amount is None when Decimal(amount)
\* raises.
submit_bid_with_file_resp(u, t, amount, ext) ==
    IF company_id(u) = None
    THEN Resp("submit_bid", 400, "Unassigned", t, 0)
    ELSE IF ~can_submit_bid(u)
    THEN Resp("submit_bid", 403, "Forbidden", t, 0)
    ELSE IF t \notin DOMAIN tenders
    THEN Resp("submit_bid", 404, "NotFound", t, 0)
    ELSE IF ~can_receive_bids(tenders[t].status)
    THEN Resp("submit_bid", 400, "InvalidState", t, 0)
    ELSE IF now >= tenders[t].closing_date
    THEN Resp("submit_bid", 400, "InvalidState", t, 0)
    ELSE IF Some(tenders[t].posted_by_id) = company_id(u)
    THEN Resp("submit_bid", 400, "SelfBidding", t, 0)
    ELSE IF ext \notin AllowedExt
    THEN Resp("submit_bid", 400, "InvalidFile", t, 0)
    ELSE IF amount = None
    THEN Resp("submit_bid", 400, "InvalidAmount", t, 0)
    ELSE Resp("submit_bid", 200, "ok", t, Len(bids) + 1)

submit_bid_with_file(u, t, amount, ext) ==
    /\ IF Ok(submit_bid_with_file_resp(u, t, amount, ext))
       THEN bids' = Append(bids, Bid(t, company_id(u)[1], amount[1], "pending", 1, None))
       ELSE UNCHANGED bids
    /\ UNCHANGED <<now, tenders, queue, ledger, inflight, sm, cache>>

update_bid_status_resp(u, b, status) ==
    IF b \notin DOMAIN bids
    THEN Resp("update_bid_status", 404, "NotFound", 0, b)
    ELSE IF Some(tenders[bids[b].tender_id].posted_by_id) # company_id(u)
    THEN Resp("update_bid_status", 403, "Forbidden", bids[b].tender_id, b)
    ELSE IF status \notin {"pending", "accepted", "rejected"}
    THEN Resp("update_bid_status", 400, "InvalidStatusValue", bids[b].tender_id, b)
    ELSE Resp("update_bid_status", 200, "ok", bids[b].tender_id, b)

update_bid_status(u, b, status) ==
    /\ IF Ok(update_bid_status_resp(u, b, status))
       THEN bids' = [bids EXCEPT ![b].status = status]
       ELSE UNCHANGED bids
    /\ UNCHANGED <<now, tenders, queue, ledger, inflight, sm, cache>>

withdraw_bid_resp(u, b) ==
    IF b \notin DOMAIN bids
    THEN Resp("withdraw_bid", 404, "NotFound", 0, b)
    ELSE IF Some(bids[b].company_id) # company_id(u)
    THEN Resp("withdraw_bid", 403, "Forbidden", bids[b].tender_id, b)
    ELSE IF bids[b].status = "withdrawn"
    THEN Resp("withdraw_bid", 400, "AlreadyWithdrawn", bids[b].tender_id, b)
    ELSE IF ~can_receive_bids(tenders[bids[b].tender_id].status)
    THEN Resp("withdraw_bid", 400, "InvalidState", bids[b].tender_id, b)
    ELSE Resp("withdraw_bid", 200, "ok", bids[b].tender_id, b)

withdraw_bid(u, b, reason) ==
    /\ IF Ok(withdraw_bid_resp(u, b))
       THEN bids' = [bids EXCEPT ![b].status = "withdrawn",
                                 ![b].withdrawn_at = Some(now),
                                 ![b].withdrawal_reason = Some(reason)]
       ELSE UNCHANGED bids
    /\ UNCHANGED <<now, tenders, queue, ledger, inflight, sm, cache>>

\* The checks of revise_bid; ext is None when no file is uploaded.
revise_bid_resp(u, b, amount, ext) ==
    IF b \notin DOMAIN bids
    THEN Resp("revise_bid", 404, "NotFound", 0, b)
    ELSE IF Some(bids[b].company_id) # company_id(u)
    THEN Resp("revise_bid", 403, "Forbidden", bids[b].tender_id, b)
    ELSE IF bids[b].status = "withdrawn"
    THEN Resp("revise_bid", 400, "InvalidState", bids[b].tender_id, b)
    ELSE IF ~can_receive_bids(tenders[bids[b].tender_id].status)
    THEN Resp("revise_bid", 400, "InvalidState", bids[b].tender_id, b)
    ELSE IF now >= tenders[bids[b].tender_id].closing_date
    THEN Resp("revise_bid", 400, "InvalidState", bids[b].tender_id, b)
    ELSE IF ext # None /\ ext[1] \notin AllowedExt
    THEN Resp("revise_bid", 400, "InvalidFile", bids[b].tender_id, b)
    ELSE IF amount = None
    THEN Resp("revise_bid", 400, "InvalidAmount", bids[b].tender_id, b)
    ELSE Resp("revise_bid", 200, "ok", bids[b].tender_id, Len(bids) + 1)

revise_bid_keeps(u, b, amount, ext) ==
    /\ IF Ok(revise_bid_resp(u, b, amount, ext))
       THEN bids' = Append(bids,
                           Bid(bids[b].tender_id, bids[b].company_id, amount[1],
                               "pending", bids[b].revision_number + 1, Some(b)))
       ELSE UNCHANGED bids
    /\ UNCHANGED <<now, tenders, queue, ledger, inflight, sm, cache>>

revise_bid(u, b, amount, ext) ==
    /\ IF Ok(revise_bid_resp(u, b, amount, ext))
       THEN bids' = Append([bids EXCEPT ![b].status = "superseded"],
                           Bid(bids[b].tender_id, bids[b].company_id, amount[1],
                               "pending", bids[b].revision_number + 1, Some(b)))
       ELSE UNCHANGED bids
    /\ UNCHANGED <<now, tenders, queue, ledger, inflight, sm, cache>>

---------------------------------------------------------------------------
(* app/services/scheduler_service.py *)

\* One run of auto_transition_tender_status.  Its second query runs after
\* the first loop's assignments; it sees them when the session autoflushes
\* and the stored rows when it does not, so either is taken.
auto_transition_rows(autoflush) ==
    LET draft_tenders ==
            {t \in DOMAIN tenders : /\ tenders[t].status = "draft"
                                    /\ tenders[t].publish_date # None
                                    /\ tenders[t].publish_date[1] <= now}
        seen(t) == IF autoflush /\ t \in draft_tenders
                   THEN "published" ELSE tenders[t].status
        open_tenders ==
            {t \in DOMAIN tenders : /\ seen(t) \in {"open", "published"}
                                    /\ tenders[t].closing_date <= now}
    IN  [t \in DOMAIN tenders |->
            IF t \in open_tenders THEN [tenders[t] EXCEPT !.status = "closed"]
            ELSE IF t \in draft_tenders THEN [tenders[t] EXCEPT !.status = "published"]
            ELSE tenders[t]]

auto_transition_tender_status(autoflush) ==
    /\ tenders' = auto_transition_rows(autoflush)
    /\ UNCHANGED <<now, bids, queue, ledger, inflight, sm, cache>>

---------------------------------------------------------------------------
(* app/services/chain_worker.py and app/services/blockchain_service.py *)

\* Tender.title, which no handler changes once the tender has left
\* draft/published.
title(t) == IF t = 1 THEN "Bridge repair" ELSE "School meals"

award_data_now(job) ==
    [tender_id          |-> job.tender_id,
     tender_title       |-> title(job.tender_id),
     winning_bid_id     |-> job.winning_bid_id,
     winning_company_id |-> bids[job.winning_bid_id].company_id,
     award_amount       |-> job.award_amount,
     awarded_at         |-> now,
     posted_by          |-> tenders[job.tender_id].posted_by_id]

\* The dict process_award hashes.
award_data(job) ==
    [tender_id          |-> job.tender_id,
     tender_title       |-> title(job.tender_id),
     winning_bid_id     |-> job.winning_bid_id,
     winning_company_id |-> bids[job.winning_bid_id].company_id,
     award_amount       |-> job.award_amount,
     awarded_at         |-> IF tenders[job.tender_id].awarded_at # None
                            THEN tenders[job.tender_id].awarded_at[1]
                            ELSE now,
     posted_by          |-> tenders[job.tender_id].posted_by_id]

\* sha256 over json.dumps(award_data, sort_keys=True): the digest stands
\* for the text it is taken of, the fields in sorted key order.
data_hash_hex(d) ==
    <<d.award_amount, d.awarded_at, d.posted_by, d.tender_id, d.tender_title,
      d.winning_bid_id, d.winning_company_id>>

\* The record the registry keeps for a recordAward transaction.
award_record(job, d) ==
    [tender_id          |-> job.tender_id,
     winning_bid_id     |-> job.winning_bid_id,
     winning_company_id |-> d.winning_company_id,
     award_amount       |-> job.award_amount * 100,
     data_hash          |-> data_hash_hex(d)]

process_award_submit_marks(i, raised) ==
    /\ i \in DOMAIN queue
    /\ queue[i].state \in {"enqueued", "failed"}
    /\ raised
    /\ queue' = [queue EXCEPT ![i].state = "failed"]
    /\ tenders' = [tenders EXCEPT ![queue[i].tender_id].award_chain_tx = Some(0)]
    /\ UNCHANGED <<now, bids, ledger, inflight, sm, cache>>

\* process_award up to the return of record_award: the job is delivered,
\* loads its rows and submits the award; record_award raises or the ledger
\* takes the record and returns the hash and the transaction.
process_award_submit(i, raised) ==
    /\ i \in DOMAIN queue
    /\ queue[i].state \in {"enqueued", "failed"}
    /\ LET job == queue[i]
       IN  IF job.tender_id \notin DOMAIN tenders \/ job.winning_bid_id \notin DOMAIN bids
           THEN /\ queue' = [queue EXCEPT ![i].state = "dropped"]
                /\ UNCHANGED ledger
           ELSE IF raised
           THEN /\ queue' = [queue EXCEPT ![i].state = "failed"]
                /\ UNCHANGED ledger
           ELSE /\ ledger' = Append(ledger, award_record(job, award_data(job)))
                /\ queue' = [queue EXCEPT
                       ![i].state = "running",
                       ![i].data_hash = Some(data_hash_hex(award_data(job))),
                       ![i].tx_hash = Some(Len(ledger) + 1),
                       ![i].seen_hash = tenders[job.tender_id].award_hash_on_chain,
                       ![i].seen_status = Some(bids[job.winning_bid_id].status)]
    /\ UNCHANGED <<now, tenders, bids, inflight, sm, cache>>

process_award_commit_txonly(i) ==
    /\ i \in DOMAIN queue
    /\ queue[i].state = "running"
    /\ tenders' = [tenders EXCEPT ![queue[i].tender_id].award_chain_tx = queue[i].tx_hash]
    /\ queue' = [queue EXCEPT ![i].state = "committed"]
    /\ UNCHANGED <<now, bids, ledger, inflight, sm, cache>>

\* process_award from the return of record_award to db.commit().
process_award_commit(i) ==
    /\ i \in DOMAIN queue
    /\ queue[i].state = "running"
    /\ LET job == queue[i]
       IN  /\ tenders' = [tenders EXCEPT
                  ![job.tender_id].award_hash_on_chain =
                      IF job.data_hash # job.seen_hash THEN job.data_hash ELSE @,
                  ![job.tender_id].award_chain_tx = job.tx_hash]
           /\ bids' = [bids EXCEPT
                  ![job.winning_bid_id].status =
                      IF job.seen_status # Some("accepted") THEN "accepted" ELSE @]
    /\ queue' = [queue EXCEPT ![i].state = "committed"]
    /\ UNCHANGED <<now, ledger, inflight, sm, cache>>

\* The worker dies between record_award and db.commit(); the queue delivers
\* the job again.
process_award_crash(i) ==
    /\ i \in DOMAIN queue
    /\ queue[i].state = "running"
    /\ queue' = [queue EXCEPT ![i].state = "enqueued"]
    /\ UNCHANGED <<now, tenders, bids, ledger, inflight, sm, cache>>

\* The tuple getAward returns for a tender the registry holds no award of:
\* every field empty.
NoAward ==
    [tender_id |-> 0, winning_bid_id |-> 0, winning_company_id |-> "",
     award_amount |-> 0, data_hash |-> <<>>]

\* contract.functions.getAward(tender_id).call(): the award the registry
\* holds for the tender, one of the records it took for it, or NoAward.
getAward(t) ==
    IF \E i \in DOMAIN ledger : ledger[i].tender_id = t
    THEN {ledger[i] : i \in {k \in DOMAIN ledger : ledger[k].tender_id = t}}
    ELSE {NoAward}

verify_award_by_tender_id_anyhash(result, raised) ==
    IF raised
    THEN [verified |-> FALSE, winning_bid_id |-> None, hash_on_chain |-> None,
          method |-> None]
    ELSE [verified |-> TRUE, winning_bid_id |-> Some(result.winning_bid_id),
          hash_on_chain |-> Some(result.data_hash),
          method |-> Some("contract_storage")]

\* verify_award_by_tender_id, result being what getAward returns; raised
\* when the call to the contract raises.
verify_award_by_tender_id(result, raised) ==
    IF raised
    THEN [verified |-> FALSE, winning_bid_id |-> None, hash_on_chain |-> None,
          method |-> None]
    ELSE IF result.data_hash = <<>>
    THEN [verified |-> FALSE, winning_bid_id |-> None, hash_on_chain |-> None,
          method |-> None]
    ELSE [verified |-> TRUE, winning_bid_id |-> Some(result.winning_bid_id),
          hash_on_chain |-> Some(result.data_hash),
          method |-> Some("contract_storage")]

\* The AwardVerification that verify_tender_award answers for a tender it
\* found: unverified for a tender that is not awarded, otherwise what the
\* ledger query says.
verify_tender_award_resp(t, result, raised) ==
    IF tenders[t].status # "awarded"
    THEN [tender_id |-> t, verified |-> FALSE, winning_bid_id |-> None,
          hash_on_chain |-> None, method |-> None]
    ELSE LET r == verify_award_by_tender_id(result, raised)
         IN  IF r.verified
             THEN [tender_id |-> result.tender_id, verified |-> TRUE,
                   winning_bid_id |-> r.winning_bid_id,
                   hash_on_chain |-> r.hash_on_chain, method |-> r.method]
             ELSE [tender_id |-> t, verified |-> FALSE, winning_bid_id |-> None,
                   hash_on_chain |-> None, method |-> None]

\* GET /tenders/{id}/verify: a read; 404 for a tender that does not exist.
verify_tender_award(t, raised) ==
    /\ t \in DOMAIN tenders
    /\ \E result \in getAward(t) :
           verify_tender_award_resp(t, result, raised).verified \in BOOLEAN
    /\ UNCHANGED <<now, tenders, bids, queue, ledger, inflight, sm, cache>>

---------------------------------------------------------------------------
(* Spec: the operations that write a tender, each handler one step *)

AmountInputs == {None} \cup {Some(m) : m \in Amounts}

\* GET /tenders/{id} under cache_response("tenders:detail", ttl=300): a
\* value found under the key is returned as it was stored; otherwise the
\* handler runs and what it returns is stored.  Its HTTPException is raised
\* through the wrapper, which stores nothing then.
get_tender_resp(tender_id, db) ==
    LET cache_key == generate_cache_key("tenders:detail",
                                        [tender_id |-> tender_id, db |-> db])
        cached_value == get_cached(cache_key)
    IN  IF cached_value # None
        THEN [code |-> 200, tender |-> None, cached_value |-> cached_value]
        ELSE IF tender_id \notin DOMAIN tenders
        THEN [code |-> 404, tender |-> None, cached_value |-> None]
        ELSE [code |-> 200, tender |-> Some(tenders[tender_id]), cached_value |-> None]

get_tender(tender_id, db) ==
    /\ LET r == get_tender_resp(tender_id, db)
       IN  cache' = IF r.tender # None
                    THEN set_cached(generate_cache_key("tenders:detail",
                                        [tender_id |-> tender_id, db |-> db]),
                                    r.tender[1])
                    ELSE cache
    /\ UNCHANGED <<now, tenders, bids, queue, ledger, inflight, sm>>

\* Redis drops an entry when the ttl of its setex has run out.
expire(key) ==
    /\ \E e \in cache : e.key = key
    /\ cache' = {e \in cache : e.key # key}
    /\ UNCHANGED <<now, tenders, bids, queue, ledger, inflight, sm>>

---------------------------------------------------------------------------
Next ==
    \/ Tick
    \/ \E u \in Users, c \in ClosingDates :
           Len(tenders) < Cardinality(TenderIds) /\ create_tender(u, c)
    \/ \E u \in Users, t \in TenderIds, s \in RequestedStatus, r \in Reasons :
           update_tender_status(u, t, s, r)
    \/ \E u \in Users, t \in TenderIds : close_tender(u, t)
    \/ \E u \in Users, t \in TenderIds, b \in 1..MaxBids, j \in Justifications,
          x \in BOOLEAN : award_tender(u, t, b, j, x)
    \/ \E u \in Users, t \in TenderIds, a \in AmountInputs, e \in FileExts :
           Len(bids) < MaxBids /\ submit_bid_with_file(u, t, a, e)
    \/ \E f \in BOOLEAN : auto_transition_tender_status(f)
    \/ \E i \in DOMAIN queue, x \in BOOLEAN :
           (x \/ Len(ledger) < MaxLedger) /\ process_award_submit(i, x)
    \/ \E i \in DOMAIN queue : process_award_commit(i)
    \/ \E i \in DOMAIN queue : Len(ledger) < MaxLedger /\ process_award_crash(i)
    \/ \E t \in TenderIds, x \in BOOLEAN : verify_tender_award(t, x)

Spec == Init /\ [][Next]_vars

\* SpecLive: Spec with the scheduling the worker can count on.  The queue
\* hands an enqueued job to the worker and the ledger eventually takes a
\* submission (Accept); a worker that has submitted eventually lives to
\* commit (Commit).  A run in which record_award raised has caught the
\* exception and returned normally, so the queue does not hold it as a failed
\* job: nothing is assumed about its being delivered again.
Accept ==
    \E i \in DOMAIN queue :
        /\ queue[i].state = "enqueued"
        /\ Len(ledger) < MaxLedger
        /\ process_award_submit(i, FALSE)

Commit == \E i \in DOMAIN queue : process_award_commit(i)

SpecLive == Init /\ [][Next]_vars /\ SF_vars(Accept) /\ SF_vars(Commit)

---------------------------------------------------------------------------
(* The tender handlers, the scheduler and the worker beside the cached     *)
(* read of a tender.                                                       *)

NextCache ==
    \/ Next
    \/ \E t \in TenderIds, db \in Sessions : get_tender(t, db)
    \/ \E e \in cache : expire(e.key)

SpecCache == Init /\ [][NextCache]_vars

---------------------------------------------------------------------------
(* SpecAll: Spec with the handlers that write a bid after its submission,  *)
(* each handler one step                                                   *)

NextAll ==
    \/ Tick
    \/ \E c \in ClosingDates :
           Len(tenders) < Cardinality(TenderIds) /\ create_tender("alice", c)
    \/ \E t \in TenderIds, s \in {PUBLISHED, OPEN, EVALUATION} :
           update_tender_status("alice", t, s, None)
    \/ \E t \in TenderIds : close_tender("alice", t)
    \/ \E t \in TenderIds, b \in 1..MaxBids :
           award_tender("alice", t, b, "best value", FALSE)
    \/ \E t \in TenderIds :
           Len(bids) < MaxBids /\ submit_bid_with_file("bob", t, Some(100), "pdf")
    \/ \E b \in 1..MaxBids, st \in {"pending", "rejected"} :
           update_bid_status("alice", b, st)
    \/ \E b \in 1..MaxBids : withdraw_bid("bob", b, "changed plans")
    \/ \E b \in 1..MaxBids :
           Len(bids) < MaxBids /\ revise_bid("bob", b, Some(150), None)
    \/ \E f \in BOOLEAN : auto_transition_tender_status(f)
    \/ \E i \in DOMAIN queue, x \in BOOLEAN :
           (x \/ Len(ledger) < MaxLedger) /\ process_award_submit(i, x)
    \/ \E i \in DOMAIN queue : process_award_commit(i)
    \/ \E i \in DOMAIN queue : Len(ledger) < MaxLedger /\ process_award_crash(i)

SpecAll == Init /\ [][NextAll]_vars

---------------------------------------------------------------------------
(* SpecSM: validate_transition applied to every pair of statuses *)

InitSM ==
    /\ now = 0
    /\ tenders = <<>>
    /\ bids = <<>>
    /\ queue = <<>>
    /\ ledger = <<>>
    /\ inflight = <<>>
    /\ cache = {}
    /\ sm \in {[from_status |-> f, to_status |-> t, reason |-> r, result |-> None] :
                 f \in TenderStatus, t \in RequestedStatus, r \in Reasons}

Validate ==
    /\ sm.result = None
    /\ sm' = [sm EXCEPT !.result =
                  Some(validate_transition(sm.from_status, sm.to_status, sm.reason))]
    /\ UNCHANGED <<now, tenders, bids, queue, ledger, inflight, cache>>

NextSM == Validate

SpecSM == InitSM /\ [][NextSM]_vars

---------------------------------------------------------------------------
(* SpecBids: the operations that write a bid, on one tender that its owner *)
(* takes from draft to evaluation and awards                               *)

NextBids ==
    \/ Len(tenders) < Cardinality(TenderIds) /\ create_tender("alice", 1)
    \/ \E t \in TenderIds, s \in {PUBLISHED, OPEN, EVALUATION} :
           update_tender_status("alice", t, s, None)
    \/ \E t \in TenderIds, b \in 1..MaxBidsB :
           award_tender("alice", t, b, "best value", FALSE)
    \/ \E u \in {"alice", "bob"}, t \in TenderIds :
           Len(bids) < MaxBidsB /\ submit_bid_with_file(u, t, Some(100), "pdf")
    \/ \E b \in 1..MaxBidsB, st \in BidStatusValues \ {"rejected", "withdrawn"} :
           update_bid_status("alice", b, st)
    \/ \E b \in 1..MaxBidsB : withdraw_bid("bob", b, "changed plans")
    \/ \E u \in {"alice", "bob"}, b \in 1..MaxBidsB :
           Len(bids) < MaxBidsB /\ revise_bid(u, b, Some(150), None)

SpecBids == Init /\ [][NextBids]_vars

---------------------------------------------------------------------------
(* SpecConc: the handlers as the server runs them, several at once.  A     *)
(* handler loads its rows and checks them (begin_), and later writes and   *)
(* commits (commit_); between the two, other handlers run.  The sync       *)
(* handlers run in worker threads, and submit_bid_with_file awaits the     *)
(* upload between its checks and its commit.  No handler locks a row or    *)
(* checks a version.                                                       *)

\* A request that has passed its checks: its arguments and the rows it
\* loaded (None where it loaded none).
Request(op, u, t, b, arg, tender_row, bid_row) ==
    [op |-> op, u |-> u, t |-> t, b |-> b, arg |-> arg,
     tender_row |-> tender_row, bid_row |-> bid_row]

Remove(s, k) == [i \in 1..(Len(s) - 1) |-> IF i < k THEN s[i] ELSE s[i + 1]]

begin_update_tender_status(u, t, status, reason) ==
    /\ IF Ok(update_tender_status_resp(u, t, status, reason))
       THEN inflight' = Append(inflight,
                Request("update_tender_status", u, t, 0, <<status, reason>>,
                        tenders[t], None))
       ELSE UNCHANGED inflight
    /\ UNCHANGED <<now, tenders, bids, queue, ledger, sm, cache>>

commit_update_tender_status(k) ==
    /\ k \in DOMAIN inflight
    /\ inflight[k].op = "update_tender_status"
    /\ LET r == inflight[k]
       IN  tenders' = [tenders EXCEPT ![r.t] =
               Flush(tenders[r.t], r.tender_row,
                     update_tender_status_row(r.tender_row, r.u, r.arg[1], r.arg[2]))]
    /\ cache' = invalidate_tender_cache(Some(inflight[k].t))
    /\ inflight' = Remove(inflight, k)
    /\ UNCHANGED <<now, bids, queue, ledger, sm>>

begin_award_tender(u, t, b, justification) ==
    /\ IF Ok(award_tender_resp(u, t, b, justification))
       THEN inflight' = Append(inflight,
                Request("award_tender", u, t, b, justification, tenders[t], bids[b]))
       ELSE UNCHANGED inflight
    /\ UNCHANGED <<now, tenders, bids, queue, ledger, sm, cache>>

\* award_tender from its assignments on: the second query reads the bids as
\* they are stored now, the commit writes, the job is enqueued.
commit_award_tender(k) ==
    /\ k \in DOMAIN inflight
    /\ inflight[k].op = "award_tender"
    /\ LET r == inflight[k]
       IN  /\ tenders' = [tenders EXCEPT ![r.t] =
                  Flush(tenders[r.t], r.tender_row,
                        award_tender_row(r.tender_row, r.b, r.arg))]
           /\ bids' = [i \in DOMAIN bids |->
                  IF i = r.b
                  THEN Flush(bids[i], r.bid_row, [r.bid_row EXCEPT !.status = "accepted"])
                  ELSE IF i \in other_bids(r.t, r.b)
                  THEN [bids[i] EXCEPT !.status = "rejected"]
                  ELSE bids[i]]
           /\ queue' = enqueue(Job(r.t, r.b, r.bid_row.amount), FALSE)
    /\ cache' = invalidate_tender_cache(Some(inflight[k].t))
    /\ inflight' = Remove(inflight, k)
    /\ UNCHANGED <<now, ledger, sm>>

begin_submit_bid_with_file(u, t, amount, ext) ==
    /\ IF Ok(submit_bid_with_file_resp(u, t, amount, ext))
       THEN inflight' = Append(inflight,
                Request("submit_bid", u, t, 0, amount, tenders[t], None))
       ELSE UNCHANGED inflight
    /\ UNCHANGED <<now, tenders, bids, queue, ledger, sm, cache>>

commit_submit_bid_with_file(k) ==
    /\ k \in DOMAIN inflight
    /\ inflight[k].op = "submit_bid"
    /\ LET r == inflight[k]
       IN  bids' = Append(bids, Bid(r.t, company_id(r.u)[1], r.arg[1], "pending", 1, None))
    /\ inflight' = Remove(inflight, k)
    /\ UNCHANGED <<now, tenders, queue, ledger, sm, cache>>

begin_withdraw_bid(u, b, reason) ==
    /\ IF Ok(withdraw_bid_resp(u, b))
       THEN inflight' = Append(inflight,
                Request("withdraw_bid", u, bids[b].tender_id, b, reason,
                        tenders[bids[b].tender_id], bids[b]))
       ELSE UNCHANGED inflight
    /\ UNCHANGED <<now, tenders, bids, queue, ledger, sm, cache>>

commit_withdraw_bid(k) ==
    /\ k \in DOMAIN inflight
    /\ inflight[k].op = "withdraw_bid"
    /\ LET r == inflight[k]
       IN  bids' = [bids EXCEPT ![r.b] =
               Flush(bids[r.b], r.bid_row,
                     [r.bid_row EXCEPT !.status = "withdrawn",
                                       !.withdrawn_at = Some(now),
                                       !.withdrawal_reason = Some(r.arg)])]
    /\ inflight' = Remove(inflight, k)
    /\ UNCHANGED <<now, tenders, queue, ledger, sm, cache>>

begin_revise_bid(u, b, amount, ext) ==
    /\ IF Ok(revise_bid_resp(u, b, amount, ext))
       THEN inflight' = Append(inflight,
                Request("revise_bid", u, bids[b].tender_id, b, amount,
                        tenders[bids[b].tender_id], bids[b]))
       ELSE UNCHANGED inflight
    /\ UNCHANGED <<now, tenders, bids, queue, ledger, sm, cache>>

commit_revise_bid(k) ==
    /\ k \in DOMAIN inflight
    /\ inflight[k].op = "revise_bid"
    /\ LET r == inflight[k]
       IN  bids' = Append(
               [bids EXCEPT ![r.b] =
                   Flush(bids[r.b], r.bid_row, [r.bid_row EXCEPT !.status = "superseded"])],
               Bid(r.bid_row.tender_id, r.bid_row.company_id, r.arg[1],
                   "pending", r.bid_row.revision_number + 1, Some(r.b)))
    /\ inflight' = Remove(inflight, k)
    /\ UNCHANGED <<now, tenders, queue, ledger, sm, cache>>

\* Bids stored or about to be stored.
BidsInSight ==
    Len(bids) + Cardinality({k \in DOMAIN inflight :
                                inflight[k].op \in {"submit_bid", "revise_bid"}})

\* Award jobs enqueued or about to be enqueued.
JobsInSight ==
    Len(queue) + Cardinality({k \in DOMAIN inflight : inflight[k].op = "award_tender"})

NextConc ==
    \/ Len(tenders) < Cardinality(TenderIds) /\ create_tender("alice", 1)
    \/ \E t \in TenderIds, s \in {PUBLISHED, OPEN, EVALUATION} :
           Len(inflight) < MaxInflight /\ begin_update_tender_status("alice", t, s, None)
    \/ \E k \in 1..MaxInflight : commit_update_tender_status(k)
    \/ \E t \in TenderIds, b \in 1..MaxBidsC :
           /\ Len(inflight) < MaxInflight
           /\ JobsInSight < MaxJobsC
           /\ begin_award_tender("alice", t, b, "best value")
    \/ \E k \in 1..MaxInflight : commit_award_tender(k)
    \/ \E t \in TenderIds :
           /\ Len(inflight) < MaxInflight
           /\ BidsInSight < MaxBidsC
           /\ begin_submit_bid_with_file("bob", t, Some(100), "pdf")
    \/ \E k \in 1..MaxInflight : commit_submit_bid_with_file(k)
    \/ \E b \in 1..MaxBidsC :
           Len(inflight) < MaxInflight /\ begin_withdraw_bid("bob", b, "changed plans")
    \/ \E k \in 1..MaxInflight : commit_withdraw_bid(k)
    \/ \E b \in 1..MaxBidsC :
           /\ Len(inflight) < MaxInflight
           /\ BidsInSight < MaxBidsC
           /\ begin_revise_bid("bob", b, Some(150), None)
    \/ \E k \in 1..MaxInflight : commit_revise_bid(k)

SpecConc == Init /\ [][NextConc]_vars

\* SpecConcJob: SpecConc with the worker, which runs the enqueued jobs in
\* any order beside the handlers.
NextConcJob ==
    \/ NextConc
    \/ \E i \in DOMAIN queue :
           Len(ledger) < MaxLedger /\ process_award_submit(i, FALSE)
    \/ \E i \in DOMAIN queue : process_award_commit(i)

SpecConcJob == Init /\ [][NextConcJob]_vars

---------------------------------------------------------------------------
(* The allowed-transition table as the specification states it *)

AllowedTable ==
    [s \in TenderStatus |->
        CASE s = "draft"      -> {"published", "cancelled"}
          [] s = "published"  -> {"open", "cancelled"}
          [] s = "open"       -> {"evaluation", "closed", "cancelled"}
          [] s = "evaluation" -> {"awarded", "open", "cancelled"}
          [] s = "closed"     -> {"evaluation", "cancelled"}
          [] s = "awarded"    -> {}
          [] s = "cancelled"  -> {}]

---------------------------------------------------------------------------
(* Claims checked under Spec *)

\* C1: every change of a tender's status, by any operation, is a pair of
\* the allowed-transition table.
C1_EveryChangeInTable ==
    [][\A t \in DOMAIN tenders :
          tenders'[t].status # tenders[t].status
              => tenders'[t].status \in AllowedTable[tenders[t].status]]_vars

\* C3: a request to move a tender to cancelled with a missing or empty
\* reason is rejected from every status but cancelled and leaves the tender
\* as it was; from cancelled it is accepted.
C3_Answer ==
    \A u \in Users, t \in DOMAIN tenders, r \in Reasons :
        Falsy(r) =>
            LET answer == update_tender_status_resp(u, t, CANCELLED, r)
            IN  IF tenders[t].status # CANCELLED
                THEN answer.code # 200
                ELSE can_award_tender(u, tenders[t].posted_by_id) => answer.code = 200

C3_Unchanged ==
    \A u \in Users, t \in DOMAIN tenders, r \in Reasons :
        \/ tenders' = tenders
        \/ ~(/\ Falsy(r)
              /\ tenders[t].status # CANCELLED
              /\ update_tender_status(u, t, CANCELLED, r))

C3_CancelNeedsReason == []C3_Answer /\ [][C3_Unchanged]_vars

\* C3's case: a tender that has been closed, where the owner's request to
\* cancel it without a reason is refused for the missing reason.
C3_Witness ==
    \E t \in DOMAIN tenders :
        /\ tenders[t].status = CLOSED
        /\ update_tender_status_resp("alice", t, CANCELLED, Some("")).detail
               = "Cancellation requires a reason"

\* C4: once a tender is awarded or cancelled no operation changes its
\* status.
C4_TerminalStays ==
    [][\A t \in DOMAIN tenders :
          tenders[t].status \in {AWARDED, CANCELLED}
              => tenders'[t].status = tenders[t].status]_vars

\* C4's case: an awarded tender on which the ledger-commit job has since
\* written its proof.
C4_Witness ==
    \E t \in DOMAIN tenders :
        /\ tenders[t].status = AWARDED
        /\ tenders[t].award_chain_tx # None
        /\ tenders[t].status_updated_at < now

\* C5: a tender whose status is awarded has its winning bid, award
\* timestamp and justification set.
C5_AwardedHasWinner ==
    \A t \in DOMAIN tenders :
        tenders[t].status = AWARDED =>
            /\ tenders[t].winning_bid_id # None
            /\ tenders[t].awarded_at # None
            /\ tenders[t].award_justification # None

\* C10 as stated: a bid submission on a tender that is not open, or at or
\* after its closing date, fails with InvalidState.
C10_ClosedAnswersInvalidState ==
    \A u \in Users, t \in DOMAIN tenders, a \in AmountInputs, e \in FileExts :
        (tenders[t].status # OPEN \/ now >= tenders[t].closing_date)
            => /\ submit_bid_with_file_resp(u, t, a, e).code = 400
               /\ submit_bid_with_file_resp(u, t, a, e).detail = "InvalidState"

\* C10 amended: the same for a submission by an actor who belongs to a
\* company (an actor with no company is refused as Unassigned before the
\* tender is looked at).
C10_Answer ==
    \A u \in Users, t \in DOMAIN tenders, a \in AmountInputs, e \in FileExts :
        (/\ company_id(u) # None
         /\ (tenders[t].status # OPEN \/ now >= tenders[t].closing_date))
            => /\ submit_bid_with_file_resp(u, t, a, e).code = 400
               /\ submit_bid_with_file_resp(u, t, a, e).detail = "InvalidState"

\* A step is no submission, or it is one and: a refused one creates no bid,
\* an accepted one adds one bid, pending, revision 1, without parent.
C10_Effect ==
    \A u \in Users, t \in TenderIds, a \in AmountInputs, e \in FileExts :
        \/ IF submit_bid_with_file_resp(u, t, a, e).code = 200
           THEN /\ Len(bids') = Len(bids) + 1
                /\ SubSeq(bids', 1, Len(bids)) = bids
                /\ bids'[Len(bids')].tender_id = t
                /\ bids'[Len(bids')].status = "pending"
                /\ bids'[Len(bids')].revision_number = 1
                /\ bids'[Len(bids')].parent_bid_id = None
           ELSE bids' = bids
        \/ ~submit_bid_with_file(u, t, a, e)

C10_SubmissionWindow == []C10_Answer /\ [][C10_Effect]_vars

\* C10's case: a bid was taken while the tender was open, and the tender is
\* now open past its closing date, where a submission is refused.
C10_Witness ==
    \E t \in DOMAIN tenders, b \in DOMAIN bids :
        /\ bids[b].tender_id = t
        /\ bids[b].status = "pending"
        /\ tenders[t].status = OPEN
        /\ now >= tenders[t].closing_date
        /\ submit_bid_with_file_resp("bob", t, Some(100), "pdf").detail = "InvalidState"

---------------------------------------------------------------------------
(* Claims checked under SpecSM *)

\* C2: for two different statuses, validate_transition answers ok when the
\* pair is in the table (a reason being given when the target is cancelled)
\* and answers not-ok, listing the allowed targets of the source, when the
\* pair is not in the table.
C2_ValidateMatchesTable ==
    (/\ sm.result # None
     /\ sm.to_status \in TenderStatus
     /\ sm.from_status # sm.to_status) =>
        LET r == sm.result[1]
        IN  IF sm.to_status \in AllowedTable[sm.from_status]
            THEN (sm.to_status = CANCELLED => ~Falsy(sm.reason)) => r.ok
            ELSE /\ ~r.ok
                 /\ r.text = "Cannot transition"
                 /\ Range(r.allowed) = AllowedTable[sm.from_status]

\* C2's case: open -> awarded, which is not in the table, has been refused
\* with the three targets of open listed.
C2_Witness ==
    /\ sm.from_status = OPEN
    /\ sm.to_status = AWARDED
    /\ sm.result # None
    /\ ~sm.result[1].ok
    /\ Len(sm.result[1].allowed) = Cardinality(AllowedTable[OPEN])

---------------------------------------------------------------------------
(* Claims checked under SpecBids *)

BidsOf(t) == {b \in DOMAIN bids : bids[b].tender_id = t}
AcceptedOf(t) == {b \in BidsOf(t) : bids[b].status = "accepted"}

\* C6: at most one bid of a tender has status accepted (and a bid becomes
\* accepted only through the award of its tender).
C6_OneAcceptedBid ==
    \A t \in DOMAIN tenders : Cardinality(AcceptedOf(t)) <= 1

\* C7: right after a successful award of tender t to bid b (which takes a
\* tender that can be awarded), t is awarded with b as its winning bid, b is
\* the one accepted bid of t, every other bid of t that was not withdrawn is
\* rejected, and every bid that was withdrawn is still withdrawn.
C7_AwardStep ==
    \A t \in DOMAIN tenders :
        can_award(tenders[t].status) =>
            \A u \in Users, b \in 1..MaxBidsB :
                (/\ Ok(award_tender_resp(u, t, b, "best value"))
                 /\ award_tender(u, t, b, "best value", FALSE)) =>
                    /\ tenders'[t].status = AWARDED
                    /\ tenders'[t].winning_bid_id = Some(b)
                    /\ {i \in DOMAIN bids' : bids'[i].tender_id = t
                                             /\ bids'[i].status = "accepted"} = {b}
                    /\ \A i \in BidsOf(t) \ {b} :
                           bids'[i].status = IF bids[i].status = "withdrawn"
                                             THEN "withdrawn" ELSE "rejected"

C7_AwardPostcondition == [][C7_AwardStep]_vars

\* C7's case: an awarded tender whose award has been enqueued, with its
\* winner accepted, another bid rejected and a third one withdrawn.
C7_Witness ==
    \E t \in DOMAIN tenders, w, r, d \in DOMAIN bids :
        /\ tenders[t].status = AWARDED
        /\ tenders[t].winning_bid_id = Some(w)
        /\ \E i \in DOMAIN queue : queue[i].tender_id = t /\ queue[i].winning_bid_id = w
        /\ {w, r, d} \subseteq BidsOf(t)
        /\ bids[w].status = "accepted"
        /\ bids[r].status = "rejected"
        /\ bids[d].status = "withdrawn"
        /\ bids[d].withdrawn_at # None

---------------------------------------------------------------------------
(* Claims checked under SpecConc *)

\* C8: of two award requests on one tender that run at once at most one
\* succeeds, so the tender has one enqueued ledger-commit job.
C8_OneAwardSucceeds ==
    \A t \in DOMAIN tenders :
        Cardinality({i \in DOMAIN queue : queue[i].tender_id = t}) <= 1

\* C9: under any interleaving of the requests' checks and commits, an
\* awarded tender has no pending bid.
C9_AwardedHasNoPendingBid ==
    \A t \in DOMAIN tenders :
        tenders[t].status = AWARDED =>
            \A b \in BidsOf(t) : bids[b].status # "pending"

---------------------------------------------------------------------------
(* Further claims checked under SpecBids *)

\* C11: no bid's company is the owning company of the bid's tender;
\* neither submission nor revision creates such a bid.
C11_NoSelfBid ==
    \A b \in DOMAIN bids : bids[b].company_id # tenders[bids[b].tender_id].posted_by_id

\* C11's case: the owner's own submission on its open tender is refused as
\* SelfBidding while the tender holds a revised bid of another company.
C11_Witness ==
    \E t \in DOMAIN tenders, b \in DOMAIN bids :
        /\ submit_bid_with_file_resp("alice", t, Some(100), "pdf").detail = "SelfBidding"
        /\ bids[b].tender_id = t
        /\ bids[b].revision_number = 2
        /\ bids[b].parent_bid_id # None

\* C13: for an actor who may award the tender, an award on a tender in
\* evaluation that names a withdrawn bid is answered InvalidBid, and one
\* that names a bid id the tender does not have is answered NotFound; such
\* a request leaves the tender, the bids and the queue as they were.
C13_Answer ==
    \A u \in Users, t \in DOMAIN tenders, b \in 1..MaxBidsB :
        (/\ can_award_tender(u, tenders[t].posted_by_id)
         /\ tenders[t].status = EVALUATION) =>
            LET answer == award_tender_resp(u, t, b, "best value")
            IN  /\ (b \in DOMAIN bids /\ bids[b].tender_id = t
                        /\ bids[b].status = "withdrawn")
                       => answer.code = 400 /\ answer.detail = "InvalidBid"
                /\ ~(b \in DOMAIN bids /\ bids[b].tender_id = t)
                       => answer.code = 404 /\ answer.detail = "NotFound"

C13_Unchanged ==
    \A t \in DOMAIN tenders :
        tenders[t].status = EVALUATION =>
            \A u \in Users, b \in 1..MaxBidsB :
                \/ /\ tenders' = tenders
                   /\ bids' = bids
                   /\ queue' = queue
                \/ ~(/\ award_tender_resp(u, t, b, "best value").detail
                            \in {"InvalidBid", "NotFound"}
                     /\ award_tender(u, t, b, "best value", FALSE))

C13_BadBidRefused == []C13_Answer /\ [][C13_Unchanged]_vars

\* C13's case: a tender in evaluation with a withdrawn bid, a bid that can
\* win and a bid id it does not have; the owner's award naming the first is
\* answered InvalidBid and naming the last NotFound.
C13_Witness ==
    \E t \in DOMAIN tenders, w, p \in DOMAIN bids :
        /\ tenders[t].status = EVALUATION
        /\ bids[w].status = "withdrawn"
        /\ bids[p].status = "pending"
        /\ award_tender_resp("alice", t, w, "best value").detail = "InvalidBid"
        /\ Len(bids) < MaxBidsB
        /\ award_tender_resp("alice", t, Len(bids) + 1, "best value").detail = "NotFound"

---------------------------------------------------------------------------
(* Further claims checked under Spec *)

\* C12: for an actor who may award the tender, an award on a tender whose
\* status is not evaluation is answered InvalidState, and it leaves the
\* tender, the bids and the job queue as they were.
C12_Answer ==
    \A u \in Users, t \in DOMAIN tenders, b \in 1..MaxBids, j \in Justifications :
        (/\ can_award_tender(u, tenders[t].posted_by_id)
         /\ tenders[t].status # EVALUATION) =>
            /\ award_tender_resp(u, t, b, j).code = 400
            /\ award_tender_resp(u, t, b, j).detail = "InvalidState"

C12_Unchanged ==
    \A t \in DOMAIN tenders :
        tenders[t].status # EVALUATION =>
            \A u \in Users, b \in 1..MaxBids, j \in Justifications, x \in BOOLEAN :
                \/ /\ tenders' = tenders
                   /\ bids' = bids
                   /\ queue' = queue
                \/ ~award_tender(u, t, b, j, x)

C12_AwardNeedsEvaluation == []C12_Answer /\ [][C12_Unchanged]_vars

\* C12's case: an open tender with a pending bid, where the owner's award
\* of that bid is answered InvalidState.
C12_Witness ==
    \E t \in DOMAIN tenders, b \in DOMAIN bids :
        /\ tenders[t].status = OPEN
        /\ bids[b].tender_id = t
        /\ bids[b].status = "pending"
        /\ award_tender_resp("alice", t, b, "best value").detail = "InvalidState"

\* C14: an award with a blank justification is refused, so no tender
\* carries a blank award justification.
C14_NoBlankJustification ==
    \A t \in DOMAIN tenders : tenders[t].award_justification # Some("")

\* C15: running the ledger-commit job again for one award (after a crash
\* between the ledger write and the commit) sends no second award record
\* for the tender.
C15_OneRecordPerTender ==
    \A t \in TenderIds :
        Cardinality({i \in DOMAIN ledger : ledger[i].tender_id = t}) <= 1

\* C16: two runs of the ledger-commit job on the same award facts compute
\* the same hash, whenever they run.
C16_SameFactsSameHash ==
    \A i, j \in DOMAIN ledger :
        (/\ ledger[i].tender_id = ledger[j].tender_id
         /\ ledger[i].winning_bid_id = ledger[j].winning_bid_id
         /\ ledger[i].winning_company_id = ledger[j].winning_company_id
         /\ ledger[i].award_amount = ledger[j].award_amount)
            => ledger[i].data_hash = ledger[j].data_hash

\* C16's case: the job has run twice for one award, and the clock has moved
\* on since the award.
C16_Witness ==
    /\ Len(ledger) >= 2
    /\ ledger[1].tender_id = ledger[2].tender_id
    /\ \E i \in DOMAIN queue : queue[i].state = "running"
    /\ tenders[ledger[1].tender_id].awarded_at # None
    /\ tenders[ledger[1].tender_id].awarded_at[1] < now

\* C17: when enqueueing the job fails, the award stands: the tender is
\* awarded to the named bid, that bid is accepted, the other bids that were
\* not withdrawn are rejected, and no job is in the queue.
C17_AwardStep ==
    \A t \in DOMAIN tenders :
        can_award(tenders[t].status) =>
            \A u \in Users, b \in 1..MaxBids, j \in Justifications :
                \/ ~(/\ Ok(award_tender_resp(u, t, b, j))
                     /\ award_tender(u, t, b, j, TRUE))
                \/ /\ tenders'[t].status = AWARDED
                   /\ tenders'[t].winning_bid_id = Some(b)
                   /\ bids'[b].status = "accepted"
                   /\ \A i \in DOMAIN bids \ {b} :
                          bids'[i].status = IF bids[i].status = "withdrawn"
                                            THEN "withdrawn" ELSE "rejected"
                   /\ queue' = queue

C17_EnqueueFailureKeepsAward == [][C17_AwardStep]_vars

\* C17's case: an awarded tender with its winner accepted, another bid
\* rejected, and no job in the queue.
C17_Witness ==
    \E t \in DOMAIN tenders, w, r \in DOMAIN bids :
        /\ tenders[t].status = AWARDED
        /\ tenders[t].winning_bid_id = Some(w)
        /\ bids[w].status = "accepted"
        /\ bids[r].status = "rejected"
        /\ queue = <<>>

\* C18: a run of the job in which the ledger submission fails writes
\* nothing: tenders, bids and ledger are as before.
C18_FailedRunStep ==
    \A i \in DOMAIN queue :
        \/ /\ tenders' = tenders
           /\ bids' = bids
           /\ ledger' = ledger
        \/ ~process_award_submit(i, TRUE)

C18_FailedRunWritesNothing == [][C18_FailedRunStep]_vars

\* C18's case: a job whose submission failed, its tender awarded and still
\* without hash and commit reference.
C18_Witness ==
    \E i \in DOMAIN queue :
        /\ queue[i].state = "failed"
        /\ tenders[queue[i].tender_id].status = AWARDED
        /\ tenders[queue[i].tender_id].award_chain_tx = None
        /\ tenders[queue[i].tender_id].award_hash_on_chain = None

---------------------------------------------------------------------------
(* Claims checked under SpecLive *)

\* C19: every award whose job was enqueued eventually has its content hash
\* and commit reference written on the tender.
C19_EnqueuedEventuallyCommitted ==
    \A t \in TenderIds :
        (\E i \in DOMAIN queue : queue[i].tender_id = t)
            ~> (/\ t \in DOMAIN tenders
                /\ tenders[t].award_hash_on_chain # None
                /\ tenders[t].award_chain_tx # None)

---------------------------------------------------------------------------
(* A further claim refuted under SpecBids *)

\* C20: a bid that is withdrawn or superseded is never set back to pending.
C20_NoReturnToPending ==
    [][\A b \in DOMAIN bids :
          bids[b].status \in {"withdrawn", "superseded"}
              => bids'[b].status # "pending"]_vars

---------------------------------------------------------------------------
(* Revision chains, checked under SpecBids *)

\* Following parent pointers from bid b reaches a parentless bid within n
\* steps, the revision number going down by one at each step.
RECURSIVE ReachesRoot(_, _)
ReachesRoot(b, n) ==
    IF bids[b].parent_bid_id = None THEN TRUE
    ELSE IF n = 0 THEN FALSE
    ELSE LET p == bids[b].parent_bid_id[1]
         IN  /\ p \in DOMAIN bids
             /\ bids[p].revision_number = bids[b].revision_number - 1
             /\ ReachesRoot(p, n - 1)

\* C21: a successful revision of bid b adds one bid and changes b alone:
\* b becomes superseded, the new bid is pending with b as its parent, b's
\* revision number plus one, and b's tender and company; and from every bid
\* the parent pointers lead to a parentless bid, without a cycle, the
\* revision number going down by one at each step.
C21_Chain == \A b \in DOMAIN bids : ReachesRoot(b, Len(bids))

C21_Step ==
    /\ \A b \in DOMAIN bids :
           (/\ Len(bids') = Len(bids) + 1
            /\ bids'[Len(bids')].parent_bid_id = Some(b)) =>
               /\ bids'[b] = [bids[b] EXCEPT !.status = "superseded"]
               /\ \A i \in DOMAIN bids \ {b} : bids'[i] = bids[i]
               /\ bids'[Len(bids')].status = "pending"
               /\ bids'[Len(bids')].revision_number = bids[b].revision_number + 1
               /\ bids'[Len(bids')].tender_id = bids[b].tender_id
               /\ bids'[Len(bids')].company_id = bids[b].company_id
    /\ \A u \in {"alice", "bob"}, b \in DOMAIN bids :
           \/ /\ Len(bids') = Len(bids) + 1
              /\ bids'[Len(bids')].parent_bid_id = Some(b)
           \/ ~(/\ Ok(revise_bid_resp(u, b, Some(150), None))
                /\ revise_bid(u, b, Some(150), None))

\* C21 over every state and every step: the chains are well formed and a
\* revision has exactly its effect.  A step that changes nothing satisfies
\* [][C21_Step]_vars whatever C21_Step says of it; it is set aside first.
C21_ReviseChain == []C21_Chain /\ [][UNCHANGED vars \/ C21_Step]_vars

\* C21's case: a bid revised twice: a chain of three bids, the first two
\* superseded and the last pending with revision number 3.
C21_Witness ==
    \E a, b, c \in DOMAIN bids :
        /\ bids[a].parent_bid_id = None
        /\ bids[b].parent_bid_id = Some(a)
        /\ bids[c].parent_bid_id = Some(b)
        /\ bids[a].status = "superseded"
        /\ bids[b].status = "superseded"
        /\ bids[c].status = "pending"
        /\ bids[c].revision_number = 3

\* The parentless bid of table rows that the parent pointers lead to from
\* bid b, followed for at most n steps.
RECURSIVE RootOf(_, _, _)
RootOf(rows, b, n) ==
    IF rows[b].parent_bid_id = None \/ n = 0 THEN b
    ELSE RootOf(rows, rows[b].parent_bid_id[1], n - 1)

\* C30: a revision is never made of a bid that is superseded, and after a
\* revision at most one of the bids that descend from one original bid is
\* pending.
C30_OnePendingPerChain ==
    [][\A p \in DOMAIN bids :
          (/\ Len(bids') = Len(bids) + 1
           /\ bids'[Len(bids')].parent_bid_id = Some(p)) =>
              /\ bids[p].status # "superseded"
              /\ \A a, b \in DOMAIN bids' :
                     (/\ bids'[a].status = "pending"
                      /\ bids'[b].status = "pending"
                      /\ RootOf(bids', a, Len(bids')) = RootOf(bids', b, Len(bids')))
                         => a = b]_vars

---------------------------------------------------------------------------
(* Claims checked under SpecAll *)

\* C22: the withdrawal window is the submission window: a bid is withdrawn
\* only while its tender is open and the time is before the tender's
\* closing date.
C22_WithdrawalWindow ==
    [][\A b \in DOMAIN bids :
          (bids[b].status # "withdrawn" /\ bids'[b].status = "withdrawn") =>
              /\ tenders[bids[b].tender_id].status = OPEN
              /\ now < tenders[bids[b].tender_id].closing_date]_vars

\* C29: when the ledger-commit job commits, the bid named in its payload is
\* already accepted and is the tender's winning bid, and the job's commit
\* changes no bid.
C29_JobWriteIsNoOp ==
    [][\A i \in DOMAIN queue :
          (queue[i].state = "running" /\ queue'[i].state = "committed") =>
              /\ bids[queue[i].winning_bid_id].status = "accepted"
              /\ tenders[queue[i].tender_id].winning_bid_id
                     = Some(queue[i].winning_bid_id)
              /\ bids' = bids]_vars

---------------------------------------------------------------------------
(* Claims about the tender's cancellation fields and status timestamp,     *)
(* checked under Spec                                                      *)

\* C23: a tender's cancellation reason, actor and timestamp are all unset
\* or all set, and they are set exactly when the tender is cancelled.
C23_CancellationAllOrNothing ==
    \A t \in DOMAIN tenders :
        /\ (tenders[t].cancellation_reason # None) <=> (tenders[t].status = CANCELLED)
        /\ (tenders[t].cancelled_by_id # None) <=> (tenders[t].status = CANCELLED)
        /\ (tenders[t].cancelled_at # None) <=> (tenders[t].status = CANCELLED)

\* C24: a status-change request that names the tender's current status is
\* accepted (from an actor who may administer the tender) and changes
\* nothing: status, status timestamp and cancellation fields stay.
C24_Accepted ==
    \A u \in Users, t \in DOMAIN tenders, r \in Reasons :
        can_award_tender(u, tenders[t].posted_by_id)
            => Ok(update_tender_status_resp(u, t, tenders[t].status, r))

C24_Unchanged ==
    \A u \in Users, t \in DOMAIN tenders, r \in Reasons :
        \/ /\ tenders'[t].status = tenders[t].status
           /\ tenders'[t].status_updated_at = tenders[t].status_updated_at
           /\ tenders'[t].cancellation_reason = tenders[t].cancellation_reason
           /\ tenders'[t].cancelled_by_id = tenders[t].cancelled_by_id
           /\ tenders'[t].cancelled_at = tenders[t].cancelled_at
        \/ ~update_tender_status(u, t, tenders[t].status, r)

C24_SameStatusIsNoOp == []C24_Accepted /\ [][C24_Unchanged]_vars

\* C27: every step that changes a tender's status, whichever operation
\* takes it, sets the tender's status timestamp to the time of the step.
C27_StatusChangeIsStamped ==
    [][\A t \in DOMAIN tenders :
          tenders'[t].status # tenders[t].status
              => tenders'[t].status_updated_at = now]_vars

---------------------------------------------------------------------------
(* Claims about the ledger commit proof, checked under Spec *)

\* C25: a tender has its content hash set exactly when it has its commit
\* reference set, and then the tender is awarded with a winning bid; and
\* the two are written only by the commit of a job run whose submission the
\* ledger took, as the hash and the transaction of that submission.
C25_ProofOnAwarded ==
    \A t \in DOMAIN tenders :
        /\ (tenders[t].award_hash_on_chain # None) <=> (tenders[t].award_chain_tx # None)
        /\ tenders[t].award_chain_tx # None =>
               /\ tenders[t].status = AWARDED
               /\ tenders[t].winning_bid_id # None

C25_WrittenByJob ==
    \A t \in DOMAIN tenders :
        \/ /\ tenders'[t].award_chain_tx = tenders[t].award_chain_tx
           /\ tenders'[t].award_hash_on_chain = tenders[t].award_hash_on_chain
        \/ \E i \in DOMAIN queue :
               /\ queue[i].state = "running"
               /\ queue'[i].state = "committed"
               /\ queue[i].tender_id = t
               /\ queue[i].tx_hash # None
               /\ queue[i].tx_hash[1] \in DOMAIN ledger
               /\ ledger[queue[i].tx_hash[1]].tender_id = t
               /\ tenders'[t].award_chain_tx = queue[i].tx_hash
               /\ tenders'[t].award_hash_on_chain
                      = Some(ledger[queue[i].tx_hash[1]].data_hash)

C25_CommitProof == []C25_ProofOnAwarded /\ [][C25_WrittenByJob]_vars

\* C25's case: a job that ran twice (the first run died before its commit)
\* has committed, and the tender carries the second transaction and its
\* hash.
C25_Witness ==
    \E t \in DOMAIN tenders, i \in DOMAIN queue :
        /\ queue[i].state = "committed"
        /\ queue[i].tender_id = t
        /\ Len(ledger) = 2
        /\ tenders[t].award_chain_tx = Some(2)
        /\ tenders[t].award_hash_on_chain = Some(ledger[2].data_hash)

\* C26 as stated: the verification of a tender answers verified exactly
\* when the tender is awarded and the ledger holds an award record of it
\* with a hash.
C26_VerifiedIffOnLedger ==
    \A t \in DOMAIN tenders, x \in BOOLEAN :
        \A result \in getAward(t) :
            verify_tender_award_resp(t, result, x).verified
                <=> /\ tenders[t].status = AWARDED
                    /\ \E i \in DOMAIN ledger : /\ ledger[i].tender_id = t
                                                /\ ledger[i].data_hash # <<>>

\* C26 amended: the same when the query of the ledger returns; when it
\* raises, the answer is unverified.  For a tender that is not awarded the
\* answer is unverified whatever the ledger holds and whether or not it can
\* be queried; for an awarded tender no record of which the ledger has
\* taken, the answer is unverified.  A verified answer carries a record the
\* ledger holds for the tender.
C26_VerifyAward ==
    \A t \in DOMAIN tenders, x \in BOOLEAN :
        \A result \in getAward(t) :
            LET answer == verify_tender_award_resp(t, result, x)
                held == {i \in DOMAIN ledger : /\ ledger[i].tender_id = t
                                               /\ ledger[i].data_hash # <<>>}
            IN  /\ ~x => (answer.verified <=> (tenders[t].status = AWARDED /\ held # {}))
                /\ x => ~answer.verified
                /\ tenders[t].status # AWARDED =>
                       \A other \in getAward(t) \cup {NoAward} :
                           verify_tender_award_resp(t, other, x) = answer
                /\ answer.verified =>
                       \E i \in held : /\ answer.hash_on_chain = Some(ledger[i].data_hash)
                                       /\ answer.winning_bid_id = Some(ledger[i].winning_bid_id)

\* C26's case: an awarded tender whose job has submitted the award and not
\* yet committed: verified when the ledger answers, unverified when the
\* query raises.
C26_Witness ==
    \E t \in DOMAIN tenders, i \in DOMAIN queue :
        /\ tenders[t].status = AWARDED
        /\ queue[i].tender_id = t
        /\ queue[i].state = "running"
        /\ tenders[t].award_chain_tx = None
        /\ \E result \in getAward(t) :
               /\ verify_tender_award_resp(t, result, FALSE).verified
               /\ ~verify_tender_award_resp(t, result, TRUE).verified

---------------------------------------------------------------------------
(* A claim checked under SpecConcJob *)

\* C28: when a tender carries a commit proof, the award the ledger holds
\* for the tender names the tender's winning bid, in whatever order the
\* jobs run and however the award requests interleave.
C28_LedgerNamesWinner ==
    \A t \in DOMAIN tenders :
        tenders[t].award_chain_tx # None =>
            \A result \in getAward(t) :
                Some(result.winning_bid_id) = tenders[t].winning_bid_id

---------------------------------------------------------------------------
(* The guards beside validate_transition, checked under Spec *)

\* C31: the guards used outside validate_transition agree with the
\* transition table: can_award holds of the statuses that have awarded as a
\* target, is_terminal_status of the statuses that have no target, the
\* close request is accepted from its owner on the statuses that have
\* closed as a target, and the scheduler closes a tender only from a status
\* for which should_auto_close holds.
C31_Guards ==
    /\ \A s \in TenderStatus :
           /\ can_award(s) <=> AWARDED \in Range(TRANSITIONS[s])
           /\ is_terminal_status(s) <=> TRANSITIONS[s] = <<>>
    /\ \A t \in DOMAIN tenders :
           Ok(close_tender_resp("alice", t))
               <=> CLOSED \in Range(TRANSITIONS[tenders[t].status])

C31_AutoClose ==
    \A f \in BOOLEAN, t \in DOMAIN tenders :
        (/\ auto_transition_tender_status(f)
         /\ tenders'[t].status # tenders[t].status
         /\ tenders'[t].status = CLOSED)
            => should_auto_close(tenders[t].status, tenders[t].closing_date)

C31_GuardsAgreeWithTable == []C31_Guards /\ [][C31_AutoClose]_vars
---------------------------------------------------------------------------
(* The cached tender detail, checked under SpecCache *)

C32_Changes(t) ==
    /\ t \in DOMAIN tenders
    /\ \/ tenders'[t].status # tenders[t].status
       \/ tenders'[t].winning_bid_id # tenders[t].winning_bid_id
       \/ tenders'[t].awarded_at # tenders[t].awarded_at
       \/ tenders'[t].award_justification # tenders[t].award_justification
       \/ tenders'[t].award_chain_tx # tenders[t].award_chain_tx
       \/ tenders'[t].award_hash_on_chain # tenders[t].award_hash_on_chain

\* C32: every operation that changes a tender's stored status or award
\* fields (status-change request, close, award, scheduler, ledger-commit
\* job) has invalidated the cached tender detail when it completes: a read
\* of the tender issued then, with whichever session, is answered from the
\* table and not with a value the cache held before the operation.
C32_Invalidates ==
    \A t \in TenderIds :
        C32_Changes(t) =>
            \A db \in Sessions : (get_tender_resp(t, db).tender = Some(tenders[t]))'

C32_ChangeInvalidatesDetail == [][C32_Invalidates]_vars

====
